---- MODULE Spec2Model ----
(***************************************************************************)
(* EnvellServer: the session table, the control-channel codec, the         *)
(* state channel and the tick loop of src/system/Server.rs.                *)
(*                                                                         *)
(* Text is a sequence of Unicode code points; bytes are 0..255.  One tick  *)
(* of main.rs (listen(); update();) is the chain of actions                *)
(*   Listen -> Recv* -> HandleRequest* -> BroadcastTCP -> BroadcastState   *)
(* and a panic of the process is the terminal state crashed # "".          *)
(***************************************************************************)
EXTENDS Integers, Sequences, FiniteSets, TLC

VARIABLES
    clients,          \* Server.clients: Vec<Client>
    playersState,     \* Server.playersState: Vec<[u8; 9]>
    maxPlayersCount,  \* Server.config.maxPlayersCount
    playersList,      \* Server.state.playersList: HashMap<IpAddr, (name, class)>
    chatHistory,      \* Server.state.chatHistory
    date,             \* Server.state.date
    checkpoint,       \* Server.state.checkpoint
    disk,             \* what Config::save and State::save last wrote
    requests,         \* Server.requests
    broadcast,        \* Server.broadcast
    pc,               \* position of the main loop inside the tick
    idx,              \* index of the running for-loop (clients or requests)
    crashed,          \* "" while the process runs, else the panic that ended it
    profile,          \* which class of traffic the environment produces
    accepted,         \* what listen() did in this tick
    lastRead,         \* what the last receiveTCP of this receive phase read
    closed,           \* the slots whose read() returned 0 bytes in this tick
    lastDgram,        \* what the last recv_from of this receive phase returned
    queued,           \* every message pushed to Server.broadcast in this tick
    tcpOut,           \* every control message written in this tick
    udpOut,           \* every state datagram sent in this tick
    webOut,           \* every response given to the web client in this tick
    probe             \* a codec or permission value under test, its result once applied

vars == <<clients, playersState, maxPlayersCount, playersList, chatHistory, date,
          checkpoint, disk, requests, broadcast, pc, idx, crashed, profile, accepted,
          lastRead, closed, lastDgram, queued, tcpOut, udpOut, webOut, probe>>

(***************************************************************************)
(* Bounds of the model.                                                    *)
(***************************************************************************)
TableSize == 2      \* maxPlayersCount read from config.json at start-up
MaxChat == 1        \* chat traffic stops once the history holds this many entries

(***************************************************************************)
(* Text helpers (std::string).                                             *)
(***************************************************************************)
ReplacementChar == 65533

\* core::str::utf8_char_width
utf8_char_width(x) ==
    IF x < 128 THEN 1
    ELSE IF x \in 194..223 THEN 2
    ELSE IF x \in 224..239 THEN 3
    ELSE IF x \in 240..244 THEN 4
    ELSE 0

\* the second byte a three-byte or four-byte sequence may carry after its first
wellFormedSecond(first, x) ==
    \/ first = 224 /\ x \in 160..191
    \/ first \in 225..236 /\ x \in 128..191
    \/ first = 237 /\ x \in 128..159
    \/ first \in 238..239 /\ x \in 128..191
    \/ first = 240 /\ x \in 144..191
    \/ first \in 241..243 /\ x \in 128..191
    \/ first = 244 /\ x \in 128..143

\* Utf8Chunks::next at the head of b: <<the character, the bytes it takes>>;
\* an ill-formed run of bytes becomes one replacement character
decodeHead(b) ==
    LET at(k) == IF k <= Len(b) THEN b[k] ELSE 0
        cont(k) == at(k) \in 128..191
        low(k) == at(k) - 128
        w == utf8_char_width(b[1])
    IN CASE w = 1 -> <<b[1], 1>>
         [] w = 2 -> IF cont(2) THEN <<(b[1] - 192) * 64 + low(2), 2>>
                     ELSE <<ReplacementChar, 1>>
         [] w = 3 -> IF ~wellFormedSecond(b[1], at(2)) THEN <<ReplacementChar, 1>>
                     ELSE IF ~cont(3) THEN <<ReplacementChar, 2>>
                     ELSE <<(b[1] - 224) * 4096 + low(2) * 64 + low(3), 3>>
         [] w = 4 -> IF ~wellFormedSecond(b[1], at(2)) THEN <<ReplacementChar, 1>>
                     ELSE IF ~cont(3) THEN <<ReplacementChar, 2>>
                     ELSE IF ~cont(4) THEN <<ReplacementChar, 3>>
                     ELSE <<(b[1] - 240) * 262144 + low(2) * 4096 + low(3) * 64 + low(4), 4>>
         [] OTHER -> <<ReplacementChar, 1>>

\* String::from_utf8_lossy
RECURSIVE Utf8Lossy(_)
Utf8Lossy(bytes) ==
    IF bytes = <<>> THEN <<>>
    ELSE LET d == decodeHead(bytes)
         IN <<d[1]>> \o Utf8Lossy(SubSeq(bytes, d[2] + 1, Len(bytes)))

\* char::encode_utf8
encode_utf8(c) ==
    IF c < 128 THEN <<c>>
    ELSE IF c < 2048 THEN <<192 + (c \div 64), 128 + (c % 64)>>
    ELSE IF c < 65536 THEN <<224 + (c \div 4096), 128 + ((c \div 64) % 64), 128 + (c % 64)>>
    ELSE <<240 + (c \div 262144), 128 + ((c \div 4096) % 64), 128 + ((c \div 64) % 64),
           128 + (c % 64)>>

\* str::as_bytes
RECURSIVE as_bytes(_)
as_bytes(s) == IF s = <<>> THEN <<>> ELSE encode_utf8(Head(s)) \o as_bytes(Tail(s))

to_lowercase(s) ==
    [i \in DOMAIN s |-> IF s[i] \in 65..90 THEN s[i] + 32 ELSE s[i]]

RECURSIVE split(_, _)
split(s, sep) ==
    IF \A i \in DOMAIN s : s[i] # sep THEN <<s>>
    ELSE LET k == CHOOSE i \in DOMAIN s : s[i] = sep /\ \A j \in 1..(i - 1) : s[j] # sep
         IN <<SubSeq(s, 1, k - 1)>> \o split(SubSeq(s, k + 1, Len(s)), sep)

RECURSIVE digitsValue(_)
digitsValue(s) ==
    IF s = <<>> THEN 0 ELSE digitsValue(SubSeq(s, 1, Len(s) - 1)) * 10 + (s[Len(s)] - 48)

\* str::parse::<u16>: -1 stands for Err
parseU16(s) ==
    LET d == IF s # <<>> /\ s[1] = 43 THEN Tail(s) ELSE s
    IN IF d = <<>> \/ \E i \in DOMAIN d : d[i] \notin 48..57 THEN -1
       ELSE IF digitsValue(d) > 65535 THEN -1 ELSE digitsValue(d)

RECURSIVE to_string(_)
to_string(n) ==
    IF n < 10 THEN <<48 + n>> ELSE to_string(n \div 10) \o <<48 + (n % 10)>>

u16_from_le_bytes(lo, hi) == lo + 256 * hi

(***************************************************************************)
(* Transmission.rs                                                         *)
(***************************************************************************)
NoWeb == 0          \* "0.0.0.0:0"

SMsg(t, txt, w) == [type |-> t, text |-> txt, web |-> w]

\* opcodes 2 and 3 exchanged
fromRaw_swapped(data) ==
    LET code == data[1]
        args == Utf8Lossy(Tail(data))
    IN CASE code = 1 -> SMsg("Register", args, NoWeb)
         [] code = 3 -> SMsg("Chat", args, NoWeb)
         [] code = 2 -> SMsg("SaveGame", args, NoWeb)
         [] OTHER -> SMsg("Invalid", <<>>, NoWeb)

fromRaw(data) ==
    LET code == data[1]
        args == Utf8Lossy(Tail(data))
    IN CASE code = 1 -> SMsg("Register", args, NoWeb)
         [] code = 2 -> SMsg("Chat", args, NoWeb)
         [] code = 3 -> SMsg("SaveGame", args, NoWeb)
         [] OTHER -> SMsg("Invalid", <<>>, NoWeb)

CMsg(t, i, n, c, txt, x, y) ==
    [type |-> t, id |-> i, name |-> n, class |-> c, text |-> txt, x |-> x, y |-> y]
Login(i, n, c) == CMsg("Login", i, n, c, <<>>, 0, 0)
DisconnectedMsg(i) == CMsg("Disconnected", i, <<>>, <<>>, <<>>, 0, 0)
ChatMsg(txt) == CMsg("Chat", 0, <<>>, <<>>, txt, 0, 0)
SetPosition(x, y) == CMsg("SetPosition", 0, <<>>, <<>>, <<>>, x, y)

to_le_bytes(x) == <<x % 256, x \div 256>>

toRaw(m) ==
    CASE m.type = "Login" -> <<1, m.id>> \o as_bytes(m.name) \o <<0>> \o as_bytes(m.class)
      [] m.type = "Disconnected" -> <<2, m.id>>
      [] m.type = "Chat" -> <<3>> \o as_bytes(m.text)
      [] m.type = "SetPosition" -> <<4>> \o to_le_bytes(m.x) \o to_le_bytes(m.y)

(***************************************************************************)
(* Config.rs                                                               *)
(***************************************************************************)
\* config.json "permissions" of the checked deployment: a -> admin
permissions == [n \in {<<97>>} |-> "admin"]

getPermission(name) ==
    IF name = <<87, 101, 98, 67, 108, 105, 101, 110, 116>> THEN "dev"
    ELSE IF name \in DOMAIN permissions THEN permissions[name] ELSE "player"

\* Developer no longer satisfies Admin
check_noDev(self, lvl) ==
    CASE lvl = "player" -> TRUE
      [] lvl = "admin" -> self = "admin"
      [] lvl = "dev" -> self = "dev"

\* every level satisfies every requirement
check_any(self, lvl) == TRUE

check(self, lvl) ==
    CASE lvl = "player" -> TRUE
      [] lvl = "admin" -> self = "admin" \/ self = "dev"
      [] lvl = "dev" -> self = "dev"

(***************************************************************************)
(* Client.rs                                                               *)
(***************************************************************************)
NoTcp == 0
NoUdp == 0

ClientDefault == [id |-> 0, tcp |-> NoTcp, name |-> <<>>, class |-> <<>>, udp |-> NoUdp]

\* Client::sendTCP: the write goes out iff the slot owns a connection
sendTCP(out, c, msg) ==
    IF c.tcp = NoTcp THEN out ELSE Append(out, [conn |-> c.tcp, msg |-> msg])

(***************************************************************************)
(* The environment: who can connect, what the sockets can deliver.         *)
(***************************************************************************)
Peers == IF profile = "session" THEN 1..(TableSize + 1) ELSE {1, 3}   \* TCP peers
IpOf(p) == (p + 1) \div 2           \* peers 1 and 2 share one IP address
UdpAddrs == {1, 2}                  \* source addresses of datagrams
\* socket addresses of the web clients, in the order of WebClient.tcp
WebSinks == IF profile = "order" THEN {1, 2} ELSE {1}
Dates == {<<49>>, <<50>>}           \* results of State::getDateTime

noname == <<110, 111, 110, 97, 109, 101>>
unknown == <<117, 110, 107, 110, 111, 119, 110>>
Slash == 47
Space == 32

Cmd(txt) == <<2, Slash>> \o txt
GETPOSITION == <<103, 101, 116, 112, 111, 115, 105, 116, 105, 111, 110>>
SETPOSITION == <<115, 101, 116, 112, 111, 115, 105, 116, 105, 111, 110>>
GETTIME == <<103, 101, 116, 116, 105, 109, 101>>

\* byte sequences a read of the control channel can return
ControlReads ==
    { <<1, 97>>,                                  \* Register "a"
      <<1, 98>>,                                  \* Register "b"
      <<2, 104, 105>>,                            \* Chat "hi"
      <<2, 255>>,                                 \* Chat, not UTF-8
      <<2>>,                                      \* Chat, empty payload
      Cmd(GETTIME),
      Cmd(<<71, 101, 116, 80, 111, 115, 105, 116, 105, 111, 110, 32, 98>>),  \* /GetPosition b
      Cmd(SETPOSITION \o <<32, 98, 32, 49, 48, 32, 50, 48>>),                \* /setposition b 10 20
      Cmd(SETPOSITION \o <<32, 98, 32, 120>>),                               \* /setposition b x
      Cmd(<<120>>),                               \* /x
      <<9>>, <<0, 1>> }                           \* unknown opcodes
SaveReads == { <<1, 97>>, <<3, 99>>, <<3>> }      \* Register "a", SaveGame "c", SaveGame ""
\* reads of sessions that meet the web client's traffic
BridgeReads ==
    { <<1, 87, 101, 98, 67, 108, 105, 101, 110, 116>>,      \* Register "WebClient"
      <<1, 98>>,                                            \* Register "b"
      Cmd(GETPOSITION),                                     \* /getposition
      Cmd(SETPOSITION \o <<32, 98, 32, 49, 32, 50>>) }      \* /setposition b 1 2
\* chat texts a web post can carry
WebChats ==
    CASE profile = "control" -> { <<104, 105>> }                         \* hi
      [] profile = "bridge" -> { <<Slash>> \o GETPOSITION \o <<32, 98>>,  \* /getposition b
                                 <<Slash>> \o GETTIME }                  \* /gettime
      [] OTHER -> {}

Rec(b0, x) == <<b0, x, 0, x, 1, 0, 0, 0, 0>>
\* datagrams recv_from can return
StateDatagrams ==
    { Rec(b0, 5) : b0 \in (1..TableSize) \cup {10, 7, 0, 8} }
    \cup { Rec(1, 6), <<>>, SubSeq(Rec(1, 5), 1, 8), Rec(1, 5) \o <<0>> }

\* values a saveSettings post can carry for maxPlayersCount
CapacityChoices == 1..(TableSize + 1)

TcpReads ==
    CASE profile = "control" -> ControlReads
      [] profile = "save" -> SaveReads
      [] profile = "bridge" -> BridgeReads
      [] profile = "order" -> { <<1, 97>>, <<9>> }          \* Register "a", unknown opcode
      [] OTHER -> {}
\* how a connection can end
ReadEnds ==
    CASE profile = "session" -> {"zero", "error"}
      [] profile = "control" -> {"zero"}
      [] profile = "closing" -> {"zero", "error"}
      [] profile = "order" -> {"zero"}
      [] OTHER -> {}
\* in the session profile the peers are alike: the lowest free address connects
Callers(free) ==
    IF profile = "session" /\ free # {}
    THEN {CHOOSE p \in free : \A q \in free : p <= q}
    ELSE free
Datagrams ==
    CASE profile = "session" -> StateDatagrams
      [] profile = "closing" -> { Rec(1, 5) }
      [] OTHER -> {}
Settings ==
    CASE profile = "session" -> CapacityChoices
      [] profile = "closing" -> 1..TableSize
      [] OTHER -> {}

(***************************************************************************)
(* State.rs                                                                *)
(***************************************************************************)
getPlayerInfo(ip) ==
    IF ip \in DOMAIN playersList THEN playersList[ip] ELSE <<noname, unknown>>

\* an address that has an entry keeps it
setPlayerInfo_first(ip, name, class) ==
    [i \in DOMAIN playersList \cup {ip} |->
        IF i \in DOMAIN playersList THEN playersList[i] ELSE <<name, class>>]

setPlayerInfo(ip, name, class) ==
    [i \in DOMAIN playersList \cup {ip} |->
        IF i = ip THEN <<name, class>> ELSE playersList[i]]

(***************************************************************************)
(* Server.rs: lookups                                                      *)
(***************************************************************************)
Panic == -1

\* first index of 1..maxPlayersCount that is past the table or passes the test
FirstHit(Test(_)) ==
    LET hits == {i \in 1..maxPlayersCount : i > Len(clients) \/ Test(i)}
    IN IF hits = {} THEN 0
       ELSE LET m == CHOOSE i \in hits : \A j \in hits : i <= j
            IN IF m > Len(clients) THEN Panic ELSE m

getAvailablePlayerID ==
    LET free(i) == clients[i].id = 0 IN FirstHit(free)

getPlayerID(name) ==
    LET same(i) == to_lowercase(clients[i].name) = to_lowercase(name) IN FirstHit(same)

(***************************************************************************)
(* Server::cmd, as the effects it has on the server.                       *)
(***************************************************************************)
CenterOfWorld == <<1062, 1077, 1085, 1090, 1088, 32, 1084, 1080, 1088, 1072>>
NotFound == <<1053, 1077, 32, 1085, 1072, 1081, 1076, 1077, 1085>>

Effect(panic, bc, hist, send, web) ==
    [panic |-> panic, bc |-> bc, hist |-> hist, send |-> send, web |-> web]

WebResponse(sink, kind, text) == [sink |-> sink, kind |-> kind, text |-> text]

cmd(executor, webID, text, now) ==
    LET txt == to_lowercase(text)
        args == split(txt, Space)
        arg(k, dflt) == IF k <= Len(args) THEN args[k] ELSE dflt
        web == IF executor = 0 THEN <<WebResponse(webID, "msg", txt)>> ELSE <<>>
        name == IF executor = 0 THEN CenterOfWorld ELSE clients[executor].name
        p == getPermission(name)
        c == arg(1, <<Space>>)
        n == arg(2, name)
        id == getPlayerID(n)
    IN CASE c = GETPOSITION /\ check(p, "admin") ->
              IF id = Panic THEN Effect("index", <<>>, <<>>, <<>>, web)
              ELSE LET s == playersState[id]
                       pos == IF id = 0 THEN NotFound
                              ELSE to_string(u16_from_le_bytes(s[2], s[3])) \o <<Space>>
                                   \o to_string(u16_from_le_bytes(s[4], s[5]))
                       msg == <<91, 1048, 1075, 1088, 1086, 1082, 32>> \o name
                              \o <<32, 1079, 1072, 1087, 1088, 1086, 1089, 1080, 1083, 32, 1082, 1086, 1086, 1088, 1076, 1080, 1085, 1072, 1090, 1099, 32>>
                              \o n \o <<93, 32>> \o pos
                   IN Effect("", <<ChatMsg(msg)>>, <<<<name, msg>>>>, <<>>, web)
         [] c = SETPOSITION /\ check(p, "admin") ->
              IF id = Panic THEN Effect("index", <<>>, <<>>, <<>>, web)
              ELSE IF id = 0
              THEN Effect("", <<>>,
                          <<<<name, <<91, 1048, 1075, 1088, 1086, 1082, 32>> \o n
                              \o <<32, 1085, 1077, 32, 1073, 1099, 1083, 32, 1087, 1077, 1088, 1077, 1084, 1077, 1097, 1105, 1085, 58, 32, 1053, 1045, 32, 1053, 1040, 1049, 1044, 1045, 1053, 93>>>>>>,
                          <<>>, web)
              ELSE LET x == parseU16(arg(3, <<48>>))
                       y == parseU16(arg(4, <<48>>))
                   IN IF x = -1 \/ y = -1 THEN Effect("parse", <<>>, <<>>, <<>>, web)
                      ELSE Effect("", <<>>,
                                  <<<<name, <<91, 1048, 1075, 1088, 1086, 1082, 32>> \o n
                                      \o <<32, 1087, 1077, 1088, 1077, 1084, 1077, 1097, 1105, 1085, 32, 1074, 32, 40>>
                                      \o to_string(x) \o <<59>> \o to_string(y) \o <<41, 93>>>>>>,
                                  <<[slot |-> id, msg |-> SetPosition(x, y)]>>, web)
         [] c = GETTIME ->
              Effect("", <<>>,
                     <<<<name, <<1058, 1077, 1082, 1091, 1097, 1077, 1077, 32, 1074, 1088, 1077, 1084, 1103, 32, 1089, 1077, 1088, 1074, 1077, 1088, 1072, 58, 32>> \o now>>>>,
                     <<>>, web)
         [] OTHER -> Effect("", <<>>, <<>>, <<>>, web)

(***************************************************************************)
(* Start-up: Server::init with no save.json and the configured capacity.   *)
(***************************************************************************)
Profiles == {"session", "control", "save", "bridge", "closing", "order"}
NoAccept == [result |-> "none", peer |-> NoTcp, id |-> 0]
ZeroRecord == <<0, 0, 0, 0, 0, 0, 0, 0, 0>>
NoRead == [slot |-> 0, kind |-> "none", data |-> <<>>]
NoDgram == [data |-> <<>>, addr |-> NoUdp]
NoProbe == [kind |-> "none"]

Init ==
    /\ clients = [i \in 1..TableSize |-> ClientDefault]
    /\ playersState = [i \in 1..TableSize |-> ZeroRecord]
    /\ maxPlayersCount = TableSize
    /\ playersList = <<>>
    /\ chatHistory = <<>>
    /\ date = <<>>
    /\ checkpoint = <<>>
    /\ disk = <<>>
    /\ requests = <<>>
    /\ broadcast = <<>>
    /\ pc = "listen"
    /\ idx = 1
    /\ crashed = ""
    /\ profile \in Profiles
    /\ accepted = NoAccept
    /\ lastRead = NoRead
    /\ closed = {}
    /\ lastDgram = NoDgram
    /\ queued = <<>>
    /\ tcpOut = <<>>
    /\ udpOut = <<>>
    /\ webOut = <<>>
    /\ probe = NoProbe

world == <<playersList, chatHistory, date, checkpoint, disk>>
queues == <<requests, broadcast, queued>>
wire == <<tcpOut, udpOut, webOut>>

(***************************************************************************)
(* Server::listen                                                          *)
(***************************************************************************)
Connected == {clients[i].tcp : i \in DOMAIN clients} \ {NoTcp}

\* the id of the new session left at its default
connect_noId(tcp, id, name, class) ==
    [id |-> 0, tcp |-> tcp, name |-> name, class |-> class, udp |-> NoUdp]

\* Client::connect: the new session and the Login it writes at once
connect(tcp, id, name, class) ==
    [id |-> id, tcp |-> tcp, name |-> name, class |-> class, udp |-> NoUdp]

Accept(p) ==
    LET id == getAvailablePlayerID
        info == getPlayerInfo(IpOf(p))
    IN IF id = Panic
       THEN /\ crashed' = "index"
            /\ accepted' = [result |-> "panic", peer |-> p, id |-> 0]
            /\ tcpOut' = <<>>
            /\ UNCHANGED clients
       ELSE IF id # 0
       THEN /\ clients' = [clients EXCEPT ![id] = connect(p, id, info[1], info[2])]
            /\ tcpOut' = sendTCP(<<>>, connect(p, id, info[1], info[2]),
                                 Login(id, info[1], info[2]))
            /\ accepted' = [result |-> "connected", peer |-> p, id |-> id]
            /\ UNCHANGED crashed
       ELSE /\ accepted' = [result |-> "dropped", peer |-> p, id |-> 0]
            /\ tcpOut' = <<>>
            /\ UNCHANGED <<clients, crashed>>

Listen ==
    /\ pc = "listen" /\ crashed = ""
    /\ \/ /\ accepted' = NoAccept
          /\ tcpOut' = <<>>
          /\ UNCHANGED <<clients, crashed>>
       \/ \E p \in Callers(Peers \ Connected) : Accept(p)
    /\ pc' = "update"
    /\ closed' = {} /\ queued' = <<>>
    /\ udpOut' = <<>> /\ webOut' = <<>>
    /\ UNCHANGED <<playersState, maxPlayersCount, world, requests, broadcast, idx, profile, probe,
                   lastRead, lastDgram>>

(***************************************************************************)
(* Server::update, receive phase                                           *)
(***************************************************************************)
ChatLoad ==
    Len(chatHistory)
    + Cardinality({i \in DOMAIN requests : requests[i].msg.type \in {"Chat"}})

Request(id, msg) == [id |-> id, msg |-> msg]

\* WebClient::parsePost on {"saveSettings": {"maxPlayersCount": n}}
\* and on {"chat": {"msg": text}}
\* posts that only ask: {"state": {}} and {"getChat": {"messagesLength": n}}
WebQueries ==
    CASE profile \in {"save", "order"} -> { [cmd |-> "state", n |-> 0] }
      [] profile = "bridge" -> { [cmd |-> "getChat", n |-> n] : n \in 0..(MaxChat + 1) }
      [] OTHER -> {}

WebPosts ==
    { [cmd |-> "saveSettings", n |-> n, text |-> <<>>, sink |-> w] :
        n \in Settings, w \in WebSinks }
    \cup { [cmd |-> q.cmd, n |-> q.n, text |-> <<>>, sink |-> w] :
             q \in WebQueries, w \in WebSinks }
    \cup IF ChatLoad < MaxChat
         THEN { [cmd |-> "chat", n |-> 0, text |-> t, sink |-> w] :
                  t \in WebChats, w \in WebSinks }
         ELSE {}

parsePost(post) ==
    CASE post.cmd = "chat" -> SMsg("Chat", post.text, post.sink)
      [] post.cmd = "getChat" -> SMsg("ChatHistory", <<post.n>>, post.sink)
      [] post.cmd = "state" -> SMsg("GameState", <<>>, post.sink)
      [] OTHER -> SMsg("Invalid", <<>>, post.sink)

parsePostConfig(post) ==
    IF post.cmd = "saveSettings" THEN post.n ELSE maxPlayersCount

RecvSkip ==
    /\ pc = "update" /\ crashed = ""
    /\ pc' = "dispatch" /\ idx' = 1
    /\ UNCHANGED <<clients, playersState, maxPlayersCount, world, queues, crashed,
                   profile, probe, accepted, lastRead, closed, lastDgram, wire>>

WebUpdate ==
    /\ pc = "update" /\ crashed = ""
    /\ \/ UNCHANGED <<requests, maxPlayersCount>>
       \/ \E post \in WebPosts :
            /\ requests' = Append(requests, Request(0, parsePost(post)))
            /\ maxPlayersCount' = parsePostConfig(post)
       \/ \E first, second \in WebPosts :
            /\ first.sink < second.sink
            /\ requests' = requests \o <<Request(0, parsePost(first)),
                                          Request(0, parsePost(second))>>
            /\ maxPlayersCount' = IF second.cmd = "saveSettings" THEN second.n
                                  ELSE parsePostConfig(first)
    /\ pc' = "tcp" /\ idx' = 1
    /\ UNCHANGED <<clients, playersState, world, broadcast, queued, crashed,
                   profile, probe, accepted, lastRead, closed, lastDgram, wire>>

\* what one read() of a connected slot returns
DataLoad ==
    Cardinality({i \in DOMAIN requests :
                    requests[i].id # 0 /\ requests[i].msg.type # "Disconnected"})

ReadOutcomes ==
    {[kind |-> "block", data |-> <<>>]}
    \cup {[kind |-> k, data |-> <<>>] : k \in ReadEnds}
    \cup {[kind |-> "data", data |-> d] :
            d \in {r \in TcpReads : /\ (DataLoad = 0 \/ profile = "order")
                                     /\ (r[1] = 2 => ChatLoad < MaxChat)}}

\* a read that decodes to Invalid ends the session as well
receiveTCP_strict(c, r) ==
    CASE r.kind = "zero" -> <<c, <<SMsg("Disconnected", <<>>, NoWeb)>>>>
      [] r.kind = "data" ->
           IF fromRaw(r.data).type = "Invalid"
           THEN <<c, <<SMsg("Disconnected", <<>>, NoWeb)>>>>
           ELSE <<c, <<fromRaw(r.data)>>>>
      [] r.kind = "block" -> <<c, <<>>>>
      [] r.kind = "error" ->
           <<[c EXCEPT !.tcp = NoTcp], <<SMsg("Disconnected", <<>>, NoWeb)>>>>

\* a read that brings data yields its message twice
receiveTCP_twice(c, r) ==
    CASE r.kind = "zero" -> <<c, <<SMsg("Disconnected", <<>>, NoWeb)>>>>
      [] r.kind = "data" -> <<c, <<fromRaw(r.data), fromRaw(r.data)>>>>
      [] r.kind = "block" -> <<c, <<>>>>
      [] r.kind = "error" ->
           <<[c EXCEPT !.tcp = NoTcp], <<SMsg("Disconnected", <<>>, NoWeb)>>>>

\* Client::receiveTCP: <<the client afterwards, the requests it yields>>
receiveTCP(c, r) ==
    CASE r.kind = "zero" -> <<c, <<SMsg("Disconnected", <<>>, NoWeb)>>>>
      [] r.kind = "data" -> <<c, <<fromRaw(r.data)>>>>
      [] r.kind = "block" -> <<c, <<>>>>
      [] r.kind = "error" ->
           <<[c EXCEPT !.tcp = NoTcp], <<SMsg("Disconnected", <<>>, NoWeb)>>>>

NextClient ==
    IF idx = Len(clients) THEN pc' = "udp" /\ idx' = 1
    ELSE pc' = "tcp" /\ idx' = idx + 1

ReceiveTCP ==
    /\ pc = "tcp" /\ crashed = ""
    /\ IF clients[idx].tcp = NoTcp
       THEN UNCHANGED <<clients, requests, lastRead, closed>>
       ELSE \E r \in ReadOutcomes :
              LET got == receiveTCP(clients[idx], r)
              IN /\ clients' = [clients EXCEPT ![idx] = got[1]]
                 /\ requests' = requests
                        \o [k \in DOMAIN got[2] |-> Request(clients[idx].id, got[2][k])]
                 /\ lastRead' = [slot |-> idx, kind |-> r.kind, data |-> r.data]
                 /\ closed' = IF r.kind = "zero" THEN closed \cup {idx} ELSE closed
    /\ NextClient
    /\ UNCHANGED <<playersState, maxPlayersCount, world, broadcast, queued, crashed,
                   profile, probe, accepted, lastDgram, wire>>

\* only datagrams that are too short are skipped
validSize_atLeast(size) == size >= 9

\* size != 9: continue
validSize(size) == size = 9

\* the slot id in the low 3 bits of byte 0
slotOf(b0) == b0 % 8

\* byte 0 of the record reduced to the slot id
record_masked(d) == [i \in 1..9 |-> IF i > Len(d) THEN 0 ELSE IF i = 1 THEN d[i] % 8 ELSE d[i]]

\* buffer[0..9], of a buffer zeroed before every recv_from
record(d) == [i \in 1..9 |-> IF i <= Len(d) THEN d[i] ELSE 0]

\* one iteration of the 'udp loop on Ok((size, addr))
UdpRecv ==
    /\ pc = "udp" /\ crashed = ""
    /\ \E d \in Datagrams, addr \in UdpAddrs :
         LET id == slotOf(record(d)[1])
         IN /\ lastDgram' = [data |-> d, addr |-> addr]
            /\ IF ~validSize(Len(d))
               THEN UNCHANGED <<clients, playersState, crashed>>
               ELSE IF id = 0 \/ id > Len(clients)
               THEN /\ crashed' = "index"
                    /\ UNCHANGED <<clients, playersState>>
               ELSE /\ clients' = IF clients[id].udp = NoUdp
                                  THEN [clients EXCEPT ![id].udp = addr]
                                  ELSE clients
                    /\ playersState' = [playersState EXCEPT ![id] = record(d)]
                    /\ UNCHANGED crashed
    /\ lastRead' = NoRead
    /\ UNCHANGED <<maxPlayersCount, world, queues, pc, idx, profile, probe, accepted, closed, wire>>

\* recv_from returns Err: break 'udp
UdpDone ==
    /\ pc = "udp" /\ crashed = ""
    /\ pc' = "dispatch" /\ idx' = 1
    /\ lastRead' = NoRead /\ lastDgram' = NoDgram
    /\ UNCHANGED <<clients, playersState, maxPlayersCount, world, queues, crashed,
                   profile, probe, accepted, closed, wire>>

(***************************************************************************)
(* Server::handleRequests: one iteration of the loop over the requests.    *)
(***************************************************************************)
WebClientName == <<87, 101, 98, 67, 108, 105, 101, 110, 116>>

\* every send goes to every slot that owns a connection
sendEach_all(out, sends) ==
    LET RECURSIVE toAll(_, _, _)
        toAll(o, m, k) == IF k > Len(clients) THEN o
                          ELSE toAll(sendTCP(o, clients[k], m), m, k + 1)
        RECURSIVE each(_, _)
        each(o, ss) == IF ss = <<>> THEN o
                       ELSE each(toAll(o, Head(ss).msg, 1), Tail(ss))
    IN each(out, sends)

RECURSIVE sendEach(_, _)
sendEach(out, sends) ==
    IF sends = <<>> THEN out
    ELSE sendEach(sendTCP(out, clients[Head(sends).slot], Head(sends).msg), Tail(sends))

HandleInvalid(id, msg) ==
    /\ webOut' = IF id = 0 THEN Append(webOut, WebResponse(msg.web, "error", <<>>))
                 ELSE webOut
    /\ UNCHANGED <<clients, playersState, world, broadcast, queued, crashed, tcpOut>>

HandleRegister(id, msg) ==
    IF id = 0 \/ clients[id].tcp = NoTcp
    THEN /\ crashed' = "unwrap"
         /\ UNCHANGED <<clients, playersState, world, broadcast, queued, tcpOut, webOut>>
    ELSE /\ clients' = [clients EXCEPT ![id].name = msg.text]
         /\ tcpOut' = sendTCP(tcpOut, clients[id], Login(id, msg.text, unknown))
         /\ playersList' = setPlayerInfo(IpOf(clients[id].tcp), msg.text, unknown)
         /\ UNCHANGED <<playersState, chatHistory, date, checkpoint, disk, broadcast,
                        queued, crashed, webOut>>

HandleDisconnected(id) ==
    IF id # 0
    THEN /\ clients' = [clients EXCEPT ![id] = ClientDefault]
         /\ playersState' = [playersState EXCEPT ![id][1] = id]
         /\ broadcast' = Append(broadcast, DisconnectedMsg(id))
         /\ queued' = Append(queued, DisconnectedMsg(id))
         /\ UNCHANGED <<world, crashed, tcpOut, webOut>>
    ELSE UNCHANGED <<clients, playersState, world, broadcast, queued, crashed, tcpOut,
                     webOut>>

\* every chat-history entry of a command is broadcast as well
HandleCommand_echo(id, msg, now) ==
    LET e == cmd(id, msg.web, Tail(msg.text), now)
    IN /\ webOut' = webOut \o e.web
       /\ IF e.panic # ""
          THEN /\ crashed' = e.panic
               /\ UNCHANGED <<chatHistory, broadcast, queued, tcpOut>>
          ELSE /\ broadcast' = broadcast \o e.bc \o [k \in DOMAIN e.hist |-> ChatMsg(e.hist[k][2])]
               /\ queued' = queued \o e.bc
               /\ chatHistory' = chatHistory \o e.hist
               /\ tcpOut' = sendEach(tcpOut, e.send)
               /\ UNCHANGED crashed
       /\ UNCHANGED <<clients, playersState, playersList, date, checkpoint, disk>>

HandleCommand(id, msg, now) ==
    LET e == cmd(id, msg.web, Tail(msg.text), now)
    IN /\ webOut' = webOut \o e.web
       /\ IF e.panic # ""
          THEN /\ crashed' = e.panic
               /\ UNCHANGED <<chatHistory, broadcast, queued, tcpOut>>
          ELSE /\ broadcast' = broadcast \o e.bc
               /\ queued' = queued \o e.bc
               /\ chatHistory' = chatHistory \o e.hist
               /\ tcpOut' = sendEach(tcpOut, e.send)
               /\ UNCHANGED crashed
       /\ UNCHANGED <<clients, playersState, playersList, date, checkpoint, disk>>

HandleChat(id, msg) ==
    IF msg.text = <<>>
    THEN /\ crashed' = "remove"
         /\ UNCHANGED <<clients, playersState, world, broadcast, queued, tcpOut, webOut>>
    ELSE IF Head(msg.text) = Slash
    THEN \E now \in Dates : HandleCommand(id, msg, now)
    ELSE LET n == IF id = 0 THEN WebClientName ELSE clients[id].name
         IN /\ broadcast' = Append(broadcast, ChatMsg(n \o <<58, 32>> \o msg.text))
            /\ queued' = Append(queued, ChatMsg(n \o <<58, 32>> \o msg.text))
            /\ chatHistory' = Append(chatHistory, <<n, msg.text>>)
            /\ webOut' = IF id = 0
                         THEN Append(webOut, WebResponse(msg.web, "msg",
                                                         n \o <<58, 32>> \o msg.text))
                         ELSE webOut
            /\ UNCHANGED <<clients, playersState, playersList, date, checkpoint, disk,
                           crashed, tcpOut>>

\* Server::save: Config::save, then State::save
HandleSaveGame(msg) ==
    /\ \E now \in Dates :
         /\ date' = now
         /\ disk' = [maxPlayersCount |-> maxPlayersCount, players |-> playersList,
                     checkpoint |-> msg.text, date |-> now]
    /\ UNCHANGED <<clients, playersState, playersList, chatHistory, checkpoint,
                   broadcast, queued, crashed, tcpOut, webOut>>

\* the entries a ChatHistory(start) request is answered with, in order
chatHistoryReply(h, start) ==
    LET s == IF start > Len(h) THEN 0 ELSE start
        count == Len(h) - s
    IN [k \in 1..count |->
          LET i == s + k - 1
          IN h[(IF count > 1 THEN Len(h) - 1 - i ELSE i) + 1]]

HandleChatHistory(msg) ==
    /\ webOut' = Append(webOut, WebResponse(msg.web, "history",
                                            chatHistoryReply(chatHistory, msg.text[1])))
    /\ UNCHANGED <<clients, playersState, world, broadcast, queued, crashed, tcpOut>>

HandleGameState(msg) ==
    /\ webOut' = Append(webOut, WebResponse(msg.web, "state", <<checkpoint, date>>))
    /\ UNCHANGED <<clients, playersState, world, broadcast, queued, crashed, tcpOut>>

HandleSaveSettings(msg) ==
    /\ webOut' = Append(webOut, WebResponse(msg.web, "ok", <<>>))
    /\ UNCHANGED <<clients, playersState, world, broadcast, queued, crashed, tcpOut>>

HandleRequest ==
    /\ pc = "dispatch" /\ crashed = ""
    /\ idx <= Len(requests)
    /\ LET id == requests[idx].id
           msg == requests[idx].msg
       IN CASE msg.type = "Invalid" -> HandleInvalid(id, msg)
            [] msg.type = "Register" -> HandleRegister(id, msg)
            [] msg.type = "Disconnected" -> HandleDisconnected(id)
            [] msg.type = "Chat" -> HandleChat(id, msg)
            [] msg.type = "SaveGame" -> HandleSaveGame(msg)
            [] msg.type = "ChatHistory" -> HandleChatHistory(msg)
            [] msg.type = "GameState" -> HandleGameState(msg)
            [] msg.type = "SaveSettings" -> HandleSaveSettings(msg)
    /\ idx' = IF crashed' = "" THEN idx + 1 ELSE idx
    /\ UNCHANGED <<maxPlayersCount, requests, pc, profile, probe, accepted, lastRead,
                   closed, lastDgram, udpOut>>

\* the loop is left whatever is still to dispatch
HandleDone_early ==
    /\ pc = "dispatch" /\ crashed = ""
    /\ requests' = <<>>
    /\ pc' = "flush" /\ idx' = 1
    /\ UNCHANGED <<clients, playersState, maxPlayersCount, world, broadcast, queued,
                   crashed, profile, probe, accepted, lastRead, closed, lastDgram, wire>>

\* the loop is over and the requests stay in the queue
HandleDone_keep ==
    /\ pc = "dispatch" /\ crashed = ""
    /\ idx > Len(requests)
    /\ requests' = requests
    /\ pc' = "flush" /\ idx' = 1
    /\ UNCHANGED <<clients, playersState, maxPlayersCount, world, broadcast, queued,
                   crashed, profile, probe, accepted, lastRead, closed, lastDgram, wire>>

\* the loop is over: self.requests.clear()
HandleDone ==
    /\ pc = "dispatch" /\ crashed = ""
    /\ idx > Len(requests)
    /\ requests' = <<>>
    /\ pc' = "flush" /\ idx' = 1
    /\ UNCHANGED <<clients, playersState, maxPlayersCount, world, broadcast, queued,
                   crashed, profile, probe, accepted, lastRead, closed, lastDgram, wire>>

(***************************************************************************)
(* Server::broadcastTCP                                                    *)
(***************************************************************************)
RECURSIVE sendToAll(_, _, _)
sendToAll(out, msg, i) ==
    IF i > Len(clients) THEN out
    ELSE sendToAll(sendTCP(out, clients[i], msg), msg, i + 1)

\* the queue is sent last message first
RECURSIVE flush_reversed(_, _)
flush_reversed(out, msgs) ==
    IF msgs = <<>> THEN out
    ELSE sendToAll(flush_reversed(out, Tail(msgs)), Head(msgs), 1)

RECURSIVE flush(_, _)
flush(out, msgs) ==
    IF msgs = <<>> THEN out ELSE flush(sendToAll(out, Head(msgs), 1), Tail(msgs))

BroadcastTCP ==
    /\ pc = "flush" /\ crashed = ""
    /\ tcpOut' = flush(tcpOut, broadcast)
    /\ broadcast' = <<>>
    /\ pc' = "state"
    /\ UNCHANGED <<clients, playersState, maxPlayersCount, world, requests, queued, idx,
                   crashed, profile, probe, accepted, lastRead, closed, lastDgram, udpOut, webOut>>

(***************************************************************************)
(* Server::broadcastState                                                  *)
(***************************************************************************)
\* the slots whose record goes into the packet for slot i, in the order appended
RECURSIVE packetSlots(_, _)
packetSlots(i, id) ==
    IF id > maxPlayersCount THEN <<>>
    ELSE IF playersState[id][1] = 0 \/ id = i THEN packetSlots(i, id + 1)
    ELSE <<id>> \o packetSlots(i, id + 1)

RECURSIVE concatRecords(_)
concatRecords(ids) ==
    IF ids = <<>> THEN <<>> ELSE playersState[Head(ids)] \o concatRecords(Tail(ids))

RECURSIVE statePackets(_)
statePackets(i) ==
    IF i > maxPlayersCount \/ i > Len(clients) THEN <<>>
    ELSE IF clients[i].udp = NoUdp \/ packetSlots(i, 1) = <<>> THEN statePackets(i + 1)
    ELSE <<[to |-> i, addr |-> clients[i].udp, slots |-> packetSlots(i, 1),
            data |-> concatRecords(packetSlots(i, 1))]>> \o statePackets(i + 1)

\* the inner loop indexes playersState up to maxPlayersCount for every addressed slot
StateScanPanics ==
    /\ maxPlayersCount > Len(playersState)
    /\ \E i \in 1..Len(clients) : i <= maxPlayersCount /\ clients[i].udp # NoUdp

BroadcastState ==
    /\ pc = "state" /\ crashed = ""
    /\ IF StateScanPanics
       THEN crashed' = "index" /\ UNCHANGED udpOut
       ELSE udpOut' = statePackets(1) /\ UNCHANGED crashed
    /\ pc' = "listen"
    /\ UNCHANGED <<clients, playersState, maxPlayersCount, world, queues, idx, profile, probe,
                   accepted, lastRead, closed, lastDgram, tcpOut, webOut>>

\* sendTimer has not elapsed
StateSkip ==
    /\ pc = "state" /\ crashed = ""
    /\ pc' = "listen"
    /\ UNCHANGED <<clients, playersState, maxPlayersCount, world, queues, idx, crashed,
                   profile, probe, accepted, lastRead, closed, lastDgram, wire>>

Next ==
    \/ Listen
    \/ RecvSkip
    \/ WebUpdate
    \/ ReceiveTCP
    \/ UdpRecv
    \/ UdpDone
    \/ HandleRequest
    \/ HandleDone
    \/ BroadcastTCP
    \/ BroadcastState
    \/ StateSkip

Spec == Init /\ [][Next]_vars

(***************************************************************************)
(* The server under its scheduling: main() calls listen and update in an   *)
(* endless loop, so a step that can be taken is taken, and recv_from on    *)
(* the non-blocking socket returns Err once the datagrams are read.        *)
(***************************************************************************)
LiveInit == Init /\ profile = "closing"
LiveSpec == LiveInit /\ [][Next]_vars /\ WF_vars(Next) /\ WF_vars(UdpDone)

(***************************************************************************)
(* The codec and the permission order applied to values: a Login the       *)
(* server encodes is given to the decoder, a held level is checked         *)
(* against a required one.                                                 *)
(***************************************************************************)
MaxNameLen == 2     \* longest name encoded

Levels == {"player", "admin", "dev"}
Letters == {65, 1040}                       \* 'A' and a two-byte letter
Names == UNION {[1..k -> Letters] : k \in 0..MaxNameLen}
Classes == {<<>>, <<77>>, <<0, 77>>}
Ids == {0, 1, 3, 127, 128, 255}             \* u8
MaxHistory == 3     \* longest chat history asked for
Entries == {<<<<97>>, <<104, 105>>>>, <<<<98>>, <<111>>>>}      \* ("a", "hi"), ("b", "o")
Histories == UNION {[1..k -> Entries] : k \in 0..MaxHistory}

Probe(kind, input) == [kind |-> kind, done |-> FALSE, in |-> input, out |-> <<>>]

ProbeInit ==
    /\ clients = [i \in 1..TableSize |-> ClientDefault]
    /\ playersState = [i \in 1..TableSize |-> ZeroRecord]
    /\ maxPlayersCount = TableSize
    /\ playersList = <<>> /\ chatHistory = <<>> /\ date = <<>>
    /\ checkpoint = <<>> /\ disk = <<>>
    /\ requests = <<>> /\ broadcast = <<>> /\ queued = <<>>
    /\ pc = "listen" /\ idx = 1 /\ crashed = ""
    /\ profile = "values"
    /\ accepted = NoAccept /\ lastRead = NoRead /\ closed = {} /\ lastDgram = NoDgram
    /\ tcpOut = <<>> /\ udpOut = <<>> /\ webOut = <<>>
    /\ probe \in {Probe("check", <<h, r>>) : h \in Levels, r \in Levels}
                \cup {Probe("login", Login(id, n, c)) : id \in Ids, n \in Names, c \in Classes}
                \cup {Probe("getChat", <<h, s>>) : h \in Histories, s \in 0..(MaxHistory + 1)}

server == <<clients, playersState, maxPlayersCount, world, queues, pc, idx, crashed,
            profile, accepted, lastRead, closed, lastDgram, wire>>

\* self.check(lvl)
ApplyCheck ==
    /\ probe.kind = "check" /\ ~probe.done
    /\ probe' = [probe EXCEPT !.done = TRUE, !.out = check(probe.in[1], probe.in[2])]
    /\ UNCHANGED server

\* the bytes of msg.toRaw() given to ServerMessage::fromRaw
ApplyCodec ==
    /\ probe.kind = "login" /\ ~probe.done
    /\ probe' = [probe EXCEPT !.done = TRUE, !.out = fromRaw(toRaw(probe.in))]
    /\ UNCHANGED server

\* the reply to ChatHistory(start) over a chat history
ApplyChatHistory ==
    /\ probe.kind = "getChat" /\ ~probe.done
    /\ probe' = [probe EXCEPT !.done = TRUE,
                              !.out = chatHistoryReply(probe.in[1], probe.in[2])]
    /\ UNCHANGED server

ProbeNext ==
    \/ ApplyCheck
    \/ ApplyCodec
    \/ ApplyChatHistory

ProbeSpec == ProbeInit /\ [][ProbeNext]_vars

(***************************************************************************)
(* Claims.                                                                 *)
(***************************************************************************)
Active(i) == i \in DOMAIN clients /\ clients[i].id # 0
ActiveCount == Cardinality({i \in DOMAIN clients : clients[i].id # 0})
Min(S) == CHOOSE m \in S : \A n \in S : m <= n
Dispatching == pc = "dispatch" /\ crashed = "" /\ idx <= Len(requests)

\* C1: when a connection arrives, the id allocated is the smallest id of
\* 1..capacity that is not Active; when every one of them is Active the
\* allocation returns 0 and the session table is unchanged.
C1_AllocationSmallestFree ==
    [][(pc = "listen" /\ accepted'.result # "none") =>
         LET free == {i \in 1..maxPlayersCount : ~Active(i)}
         IN IF free = {}
            THEN accepted'.result = "dropped" /\ accepted'.id = 0 /\ clients' = clients
            ELSE accepted'.result = "connected" /\ accepted'.id = Min(free)]_vars

\* C2: the slot at table index i has id 0 or id i, a slot that owns a
\* connection has id i, and the id given to an accepted connection is never 0.
C2_SlotIdMatchesIndex ==
    /\ \A i \in DOMAIN clients :
         /\ clients[i].id \in {0, i}
         /\ clients[i].tcp # NoTcp => clients[i].id = i
    /\ accepted.result = "connected" => accepted.id # 0

C2_Witness ==
    /\ \A i \in DOMAIN clients : clients[i].id = i /\ clients[i].tcp # NoTcp
    /\ accepted.result = "connected"

\* C3: the number of Active sessions never exceeds the capacity, and a
\* connection dropped because the table is full gets no slot and no byte.
C3_FullTableDrops ==
    /\ ActiveCount <= maxPlayersCount
    /\ accepted.result = "dropped" =>
         /\ accepted.peer \notin Connected
         /\ \A k \in DOMAIN tcpOut : tcpOut[k].conn # accepted.peer

\* C4: at the end of a tick in which slot k's read returned 0 bytes, slot k is
\* Empty, exactly one Disconnected(k) was queued, and the next allocation
\* returns k when every lower slot is Active.
C4_ZeroReadReleases ==
    (pc = "listen" /\ crashed = "") =>
        \A k \in closed :
            /\ clients[k] = ClientDefault
            /\ Cardinality({j \in DOMAIN queued : queued[j] = DisconnectedMsg(k)}) = 1
            /\ (\A j \in 1..(k - 1) : Active(j)) => getAvailablePlayerID = k

\* C5: no request read from a slot's control channel ends the process while
\* it is dispatched.
C5_InputNeverCrashes ==
    ~(pc = "dispatch" /\ crashed # "" /\ requests[idx].id # 0)

\* C6: a 9-byte datagram whose byte 0 has low 3 bits 0 is discarded and the
\* receive phase goes on.
C6_IdZeroDiscarded ==
    (Len(lastDgram.data) = 9 /\ lastDgram.data[1] % 8 = 0) => crashed = ""

\* C7: a datagram whose length is not 9 changes no StateRecord and no learned
\* return address.
C7_WrongSizeIgnored ==
    [][(pc = "udp" /\ pc' = "udp" /\ Len(lastDgram'.data) # 9) =>
         /\ playersState' = playersState
         /\ \A i \in DOMAIN clients : clients'[i].udp = clients[i].udp]_vars

C7_Witness ==
    /\ pc = "udp" /\ lastDgram.addr # NoUdp
    /\ Len(lastDgram.data) = 10
    /\ slotOf(lastDgram.data[1]) = 1
    /\ playersState[1] # SubSeq(lastDgram.data, 1, 9)

\* C8: a state datagram sent to slot i holds no record of slot i and no
\* record of a slot that has no learned return address.
C8_BroadcastExcludes ==
    \A k \in DOMAIN udpOut :
        \A j \in DOMAIN udpOut[k].slots :
            /\ udpOut[k].slots[j] # udpOut[k].to
            /\ clients[udpOut[k].slots[j]].udp # NoUdp

\* C9: a read of n >= 1 bytes is decoded by its first byte (1 Register,
\* 2 Chat, 3 SaveGame, anything else Invalid) with the rest as payload; a
\* read of 0 bytes is not decoded and yields Disconnected.
C9_DecodeByOpcode ==
    lastRead.kind \in {"data", "zero"} =>
        /\ requests # <<>>
        /\ LET r == requests[Len(requests)]
               op == lastRead.data[1]
           IN /\ r.id = lastRead.slot
              /\ lastRead.kind = "zero" => r.msg.type = "Disconnected"
              /\ lastRead.kind = "data" =>
                   /\ Len(lastRead.data) >= 1
                   /\ r.msg.type = CASE op = 1 -> "Register"
                                     [] op = 2 -> "Chat"
                                     [] op = 3 -> "SaveGame"
                                     [] OTHER -> "Invalid"
                   /\ op \in 1..3 => r.msg.text = Utf8Lossy(Tail(lastRead.data))

C9_Witness ==
    /\ lastRead.kind = "data" /\ lastRead.data = <<2, 255>>
    /\ requests[Len(requests)].msg = SMsg("Chat", <<ReplacementChar>>, NoWeb)

\* C10: dispatching Chat(t) from slot k named n, t not starting with '/',
\* appends Chat(n + ": " + t) to the broadcast queue and (n, t) to the chat
\* history, and changes nothing else.
C10_ChatBroadcast ==
    [][(/\ Dispatching
        /\ requests[idx].msg.type = "Chat" /\ requests[idx].id # 0
        /\ ~(requests[idx].msg.text # <<>> /\ Head(requests[idx].msg.text) = Slash)) =>
         LET n == clients[requests[idx].id].name
             t == requests[idx].msg.text
         IN /\ broadcast' = Append(broadcast, ChatMsg(n \o <<58, 32>> \o t))
            /\ chatHistory' = Append(chatHistory, <<n, t>>)
            /\ UNCHANGED <<clients, playersState, maxPlayersCount, playersList, date,
                           checkpoint, disk, requests, crashed, tcpOut>>]_vars

Rank(l) == CASE l = "player" -> 0 [] l = "admin" -> 1 [] l = "dev" -> 2

\* C13: for every pair of levels, check(held, required) is true exactly when
\* held >= required in the order Player < Admin < Developer.
C13_CheckIsTotalOrder ==
    (probe.kind = "check" /\ probe.done) =>
        (probe.out <=> Rank(probe.in[1]) >= Rank(probe.in[2]))

C13_Witness ==
    /\ probe.kind = "check" /\ probe.done
    /\ probe.in = <<"dev", "admin">> /\ probe.out = TRUE

\* C19: decoding the bytes of an encoded Login(id, name, class), the name
\* without a zero byte, gives a Register whose payload is the id, the name,
\* one 0 and the class.
C19_LoginRoundTrip ==
    (probe.kind = "login" /\ probe.done) =>
        /\ probe.out.type = "Register"
        /\ probe.out.text # <<>>
        /\ probe.out.text[1] = probe.in.id
        /\ LET rest == Tail(probe.out.text)
           IN \E z \in DOMAIN rest :
                /\ rest[z] = 0 /\ \A j \in 1..(z - 1) : rest[j] # 0
                /\ SubSeq(rest, 1, z - 1) = probe.in.name
                /\ SubSeq(rest, z + 1, Len(rest)) = probe.in.class

\* the request under dispatch is a command; its first token; who issued it
Command == requests[idx].msg.type = "Chat" /\ requests[idx].msg.text # <<>>
           /\ Head(requests[idx].msg.text) = Slash
Token == split(to_lowercase(Tail(requests[idx].msg.text)), Space)[1]
Origin == requests[idx].id
Dispatched == pc = "dispatch" /\ crashed = "" /\ idx > 1
ServerTime == <<1058, 1077, 1082, 1091, 1097, 1077, 1077, 32, 1074, 1088, 1077, 1084,
                1103, 32, 1089, 1077, 1088, 1074, 1077, 1088, 1072, 58, 32>>

\* C11: dispatching Chat("/gettime") from a session of any level queues no
\* broadcast, appends exactly one chat-history entry, the server date and
\* time, and leaves the session table and the state records unchanged.
C11_GetTimeOnlyHistory ==
    [][(Dispatching /\ Origin # 0 /\ requests[idx].msg.type = "Chat"
        /\ requests[idx].msg.text = <<Slash>> \o GETTIME) =>
         /\ broadcast' = broadcast /\ queued' = queued
         /\ Len(chatHistory') = Len(chatHistory) + 1
         /\ SubSeq(chatHistory', 1, Len(chatHistory)) = chatHistory
         /\ \E d \in Dates :
              chatHistory'[Len(chatHistory')] = <<clients[Origin].name, ServerTime \o d>>
         /\ clients' = clients /\ playersState' = playersState]_vars

C11_Witness ==
    /\ Dispatched
    /\ requests[idx - 1].msg = SMsg("Chat", <<Slash>> \o GETTIME, NoWeb)
    /\ requests[idx - 1].id # 0
    /\ clients[requests[idx - 1].id].name = noname
    /\ Len(chatHistory) = 1 /\ chatHistory[1][1] = noname
    /\ broadcast = <<>>

\* C12: a command whose first token is not a command, or whose required
\* level the caller's level does not satisfy, sends no SetPosition, queues
\* nothing, adds no chat-history entry and leaves the session table and the
\* state records unchanged.
C12_DeniedCommandNoEffect ==
    [][(/\ Dispatching /\ Command
        /\ LET name == IF Origin = 0 THEN CenterOfWorld ELSE clients[Origin].name
           IN \/ Token \notin {GETPOSITION, SETPOSITION, GETTIME}
              \/ /\ Token \in {GETPOSITION, SETPOSITION}
                 /\ Rank(getPermission(name)) < Rank("admin")) =>
         /\ UNCHANGED <<tcpOut, broadcast, queued, chatHistory, clients, playersState>>
         /\ crashed' = ""]_vars

C12_Witness ==
    /\ Dispatched
    /\ requests[idx - 1].msg.type = "Chat"
    /\ requests[idx - 1].msg.text = <<Slash>> \o SETPOSITION \o <<32, 98, 32, 49, 48, 32, 50, 48>>
    /\ requests[idx - 1].id # 0
    /\ clients[requests[idx - 1].id].name = noname
    /\ \E j \in DOMAIN clients : clients[j].name = <<98>> /\ clients[j].tcp # NoTcp
    /\ tcpOut = <<>> /\ chatHistory = <<>>

\* C14: a getposition command from origin 0 is always carried out: one Chat
\* is queued for broadcast and one chat-history entry is added.
C14_BridgeIsDeveloper ==
    [][(Dispatching /\ Command /\ Origin = 0 /\ Token = GETPOSITION) =>
         /\ Len(broadcast') = Len(broadcast) + 1
         /\ Len(chatHistory') = Len(chatHistory) + 1]_vars

\* C15: a getposition or setposition command from a slot whose name has no
\* entry in the permission table is never carried out.
C15_UnlistedNameIsPlayer ==
    [][(/\ Dispatching /\ Command /\ Origin # 0
        /\ clients[Origin].name \notin DOMAIN permissions
        /\ Token \in {GETPOSITION, SETPOSITION}) =>
         UNCHANGED <<tcpOut, broadcast, chatHistory>>]_vars

IsPrefix(a, b) == Len(a) <= Len(b) /\ SubSeq(b, 1, Len(a)) = a
Receiving == pc \in {"update", "tcp", "udp"}

\* C16: the phases of a tick follow one another as accept, receive,
\* dispatch, flush, state broadcast; the receive phase only adds requests,
\* the dispatch phase takes them one by one from the first and ends after
\* the last, the flush phase sends every message queued in the tick, and
\* state datagrams go out only after it.
C16_PhasesInOrder ==
    [][/\ pc' # pc =>
            <<pc, pc'>> \in { <<"listen", "update">>, <<"update", "tcp">>,
                              <<"update", "dispatch">>, <<"tcp", "udp">>,
                              <<"udp", "dispatch">>, <<"dispatch", "flush">>,
                              <<"flush", "state">>, <<"state", "listen">> }
       /\ IF Receiving THEN IsPrefix(requests, requests')
          ELSE pc # "dispatch" => requests = <<>> /\ requests' = <<>>
       /\ (pc # "dispatch" /\ pc' = "dispatch") => idx' = 1
       /\ (pc = "dispatch" /\ pc' = "dispatch") =>
            /\ idx <= Len(requests) /\ requests' = requests
            /\ crashed' = "" => idx' = idx + 1
       /\ (pc = "dispatch" /\ pc' = "flush") =>
            idx = Len(requests) + 1 /\ requests' = <<>>
       /\ pc # "dispatch" => queued' = queued \/ (pc = "listen" /\ queued' = <<>>)
       /\ pc = "flush" => broadcast = queued /\ broadcast' = <<>>
       /\ pc = "state" => broadcast = <<>>
       /\ udpOut' # udpOut => pc \in {"state", "listen"}]_vars

C16_Witness ==
    /\ pc = "state" /\ crashed = ""
    /\ lastRead.kind = "none" /\ closed # {}
    /\ queued # <<>> /\ broadcast = <<>> /\ requests = <<>>
    /\ \E k \in DOMAIN tcpOut : tcpOut[k].msg = queued[1]

\* C17: the flush phase sends every queued message, in queue order, to
\* every session that is Active at that time and to no other, and leaves the
\* broadcast queue empty.
C17_FlushToActive ==
    [][pc = "flush" =>
         LET act == {i \in DOMAIN clients : Active(i)}
             n == Cardinality(act)
             nth(j) == CHOOSE i \in act : Cardinality({k \in act : k < i}) = j - 1
             new == SubSeq(tcpOut', Len(tcpOut) + 1, Len(tcpOut'))
         IN /\ IsPrefix(tcpOut, tcpOut')
            /\ Len(new) = Len(broadcast) * n
            /\ \A m \in DOMAIN broadcast : \A j \in 1..n :
                 /\ clients[nth(j)].tcp # NoTcp
                 /\ new[(m - 1) * n + j] = [conn |-> clients[nth(j)].tcp, msg |-> broadcast[m]]
            /\ broadcast' = <<>>]_vars

C17_Witness ==
    /\ pc = "state" /\ crashed = ""
    /\ Len(queued) = 2 /\ queued[1].type = "Chat" /\ queued[2].type = "Disconnected"
    /\ ActiveCount = 1 /\ ~Active(queued[2].id)
    /\ Len(tcpOut) = 2 /\ tcpOut[1].msg = queued[1] /\ tcpOut[2].msg = queued[2]

\* C18: a slot goes from Active to Empty only by the dispatch of the
\* Disconnected request that its own read of 0 bytes or its own read error
\* produced in this tick, and once the dispatch phase is over every slot
\* whose read failed in this tick is Empty.
C18_ReleaseOnlyOnReadFailure ==
    [][/\ \A i \in DOMAIN clients :
            /\ (Active(i) /\ clients'[i].id = 0) =>
                 /\ Dispatching
                 /\ requests[idx] = Request(i, SMsg("Disconnected", <<>>, NoWeb))
                 /\ i \in closed \/ clients[i].tcp = NoTcp
            /\ (i \in closed' /\ i \notin closed) =>
                 pc = "tcp" /\ idx = i /\ lastRead' = [slot |-> i, kind |-> "zero", data |-> <<>>]
            /\ (Active(i) /\ clients[i].tcp # NoTcp /\ clients'[i].tcp = NoTcp
                          /\ clients'[i].id # 0) =>
                 pc = "tcp" /\ idx = i /\ lastRead' = [slot |-> i, kind |-> "error", data |-> <<>>]
       /\ (pc \in {"flush", "state"} /\ crashed = "") =>
            \A i \in DOMAIN clients :
                /\ i \in closed => ~Active(i)
                /\ Active(i) => clients[i].tcp # NoTcp]_vars

C18_Witness ==
    /\ Dispatched /\ idx > Len(requests)
    /\ requests[idx - 1].msg.type = "Disconnected"
    /\ requests[idx - 1].id \notin closed
    /\ clients[requests[idx - 1].id] = ClientDefault
    /\ ActiveCount = 1

\* C20: a slot has a learned return address only if it is Active, it learns
\* one only from a 9-byte datagram carrying its id, and no state datagram is
\* sent to an Empty slot.
C20_AddressOnlyIfActive ==
    [][/\ \A i \in DOMAIN clients :
            /\ clients'[i].udp # NoUdp => clients'[i].id # 0
            /\ (clients[i].udp = NoUdp /\ clients'[i].udp # NoUdp) =>
                 /\ pc = "udp" /\ Len(lastDgram'.data) = 9
                 /\ slotOf(lastDgram'.data[1]) = i
       /\ \A k \in DOMAIN udpOut' : clients'[udpOut'[k].to].id # 0]_vars

\* C24: for a chat history h of length n and 0 <= s <= n the reply to
\* ChatHistory(s) holds exactly h[s], ..., h[n-1], newest first when more
\* than one entry is returned.
C24_HistoryFromStart ==
    (probe.kind = "getChat" /\ probe.done /\ probe.in[2] <= Len(probe.in[1])) =>
        LET h == probe.in[1]
            n == Len(h)
            s == probe.in[2]
        IN /\ Len(probe.out) = n - s
           /\ IF n - s > 1
              THEN \A k \in 1..(n - s) : probe.out[k] = h[n - k + 1]
              ELSE \A k \in 1..(n - s) : probe.out[k] = h[s + k]

\* C25: once a SaveGame(c) was dispatched, a GameState request is answered
\* with the checkpoint label c and the date of the last save.
C25_GameStateReportsSave ==
    [][(Dispatching /\ requests[idx].msg.type = "GameState" /\ date # <<>>) =>
         webOut' = Append(webOut, WebResponse(requests[idx].msg.web, "state",
                                              <<disk.checkpoint, disk.date>>))]_vars

\* C26: a saveSettings post that changes the capacity is queued as a
\* SaveSettings request, the one answered with an acknowledgement, and the
\* answer to a request of the web client queued as Invalid is the error.
C26_SaveSettingsAcknowledged ==
    [][/\ (pc = "update" /\ pc' = "tcp" /\ maxPlayersCount' # maxPlayersCount) =>
            /\ Len(requests') = Len(requests) + 1
            /\ requests'[Len(requests')].id = 0
            /\ requests'[Len(requests')].msg.type = "SaveSettings"
       /\ (Dispatching /\ Origin = 0 /\ requests[idx].msg.type = "SaveSettings") =>
            webOut' = Append(webOut, WebResponse(requests[idx].msg.web, "ok", <<>>))]_vars

\* the step receives a 9-byte datagram that carries id k
Carries(k) ==
    /\ pc = "udp" /\ pc' = "udp"
    /\ Len(lastDgram'.data) = 9 /\ slotOf(lastDgram'.data[1]) = k

\* C21: slot k's StateRecord is changed only by a datagram carrying id k
\* that comes from slot k's learned return address; a datagram carrying
\* id k from another address leaves it unchanged.
C21_SingleWriter ==
    [][\A k \in DOMAIN playersState :
         /\ (Carries(k) /\ clients[k].udp # NoUdp /\ lastDgram'.addr # clients[k].udp) =>
              playersState'[k] = playersState[k]
         /\ playersState'[k] # playersState[k] =>
              Carries(k) /\ lastDgram'.addr = clients'[k].udp]_vars

\* C22: a 9-byte datagram carrying id k makes slot k's StateRecord its 9
\* bytes, and while slot k stays Active nothing else changes the record:
\* the record of an Active slot is the last valid datagram that carried
\* its id.
C22_LastWriteWins ==
    [][\A k \in DOMAIN playersState :
         /\ Carries(k) => playersState'[k] = lastDgram'.data
         /\ (Active(k) /\ clients'[k].id # 0 /\ ~Carries(k)) =>
              playersState'[k] = playersState[k]]_vars

C22_Witness ==
    /\ pc = "udp" /\ crashed = ""
    /\ Active(1) /\ Active(2)
    /\ lastDgram.data = Rec(10, 5) /\ playersState[2] = Rec(10, 5)
    /\ playersState[1] = Rec(1, 6) /\ clients[1].udp # NoUdp

\* C23: at the end of a dispatch phase that released a slot, a PlayersList
\* refresh is in the broadcast queue.
C23_PlayersListRefresh ==
    (pc = "flush" /\ \E j \in DOMAIN queued : queued[j].type = "Disconnected") =>
        \E j \in DOMAIN broadcast : broadcast[j].type = "PlayersList"

\* the arguments of the command under dispatch, and who is named as caller
Args == split(to_lowercase(Tail(requests[idx].msg.text)), Space)
CallerName == IF Origin = 0 THEN CenterOfWorld ELSE clients[Origin].name
SetPositionByAdmin ==
    /\ Dispatching /\ Command /\ Token = SETPOSITION
    /\ Rank(getPermission(CallerName)) >= Rank("admin")
Target == getPlayerID(IF Len(Args) >= 2 THEN Args[2] ELSE CallerName)
BadArg(k) == k > Len(Args) \/ parseU16(Args[k]) = -1

\* C27: a setposition command of an Admin-level caller that names an
\* existing player and whose x or y is missing or is not a u16 sends
\* nothing, leaves the session table and the state records unchanged, and
\* the server keeps running.
C27_BadArgumentIsError ==
    [][(/\ SetPositionByAdmin
        /\ Target \in DOMAIN clients /\ clients[Target].tcp # NoTcp
        /\ (BadArg(3) \/ BadArg(4))) =>
         /\ UNCHANGED <<tcpOut, clients, playersState>>
         /\ crashed' = ""]_vars

\* the chat-history texts of setposition
PlayerTag == <<91, 1048, 1075, 1088, 1086, 1082, 32>>                  \* "[Игрок "
MovedTo(n, x, y) ==
    PlayerTag \o n \o <<32, 1087, 1077, 1088, 1077, 1084, 1077, 1097, 1105, 1085, 32,
                     1074, 32, 40>> \o to_string(x) \o <<59>> \o to_string(y) \o <<41, 93>>
NotMoved(n) ==
    PlayerTag \o n \o <<32, 1085, 1077, 32, 1073, 1099, 1083, 32, 1087, 1077, 1088, 1077,
                     1084, 1077, 1097, 1105, 1085, 58, 32, 1053, 1045, 32, 1053, 1040,
                     1049, 1044, 1045, 1053, 93>>
OneMoreEntry(e) ==
    /\ Len(chatHistory') = Len(chatHistory) + 1
    /\ SubSeq(chatHistory', 1, Len(chatHistory)) = chatHistory
    /\ chatHistory'[Len(chatHistory')] = e

\* C28: a setposition command with a name, an x and a y that are u16, of a
\* caller of level Admin or higher: when the name is a session's, one
\* SetPosition(x, y) goes to that session alone, nothing is queued for
\* broadcast and one confirmation entry joins the chat history; when the
\* name is nobody's, nothing is sent and one 'not found' entry joins it.
C28_SetPositionToOne ==
    [][(/\ SetPositionByAdmin
        /\ Len(Args) = 4 /\ Args[2] # <<>>
        /\ ~BadArg(3) /\ ~BadArg(4)) =>
         LET x == parseU16(Args[3])
             y == parseU16(Args[4])
         IN /\ (Target \in DOMAIN clients /\ clients[Target].tcp # NoTcp) =>
                 /\ tcpOut' = Append(tcpOut, [conn |-> clients[Target].tcp,
                                              msg |-> SetPosition(x, y)])
                 /\ broadcast' = broadcast /\ queued' = queued
                 /\ OneMoreEntry(<<CallerName, MovedTo(Args[2], x, y)>>)
            /\ Target = 0 =>
                 /\ tcpOut' = tcpOut
                 /\ broadcast' = broadcast /\ queued' = queued
                 /\ OneMoreEntry(<<CallerName, NotMoved(Args[2])>>)]_vars

C28_Witness ==
    /\ Dispatched
    /\ requests[idx - 1].msg.type = "Chat"
    /\ requests[idx - 1].msg.text = <<Slash>> \o SETPOSITION \o <<32, 98, 32, 49, 48, 32, 50, 48>>
    /\ requests[idx - 1].id # 0
    /\ clients[requests[idx - 1].id].name = <<97>>
    /\ \E j \in DOMAIN clients :
         /\ clients[j].name = <<98>> /\ clients[j].tcp # NoTcp
         /\ tcpOut = <<[conn |-> clients[j].tcp, msg |-> SetPosition(10, 20)]>>
    /\ chatHistory = <<<<(<<97>>), MovedTo(<<98>>, 10, 20)>>>>
    /\ broadcast = <<>>

Released(k) ==
    /\ pc = "state"
    /\ clients[k] = ClientDefault
    /\ \A j \in DOMAIN clients :
         Active(j) => \E m \in DOMAIN tcpOut :
                         tcpOut[m] = [conn |-> clients[j].tcp, msg |-> DisconnectedMsg(k)]
ReleasedForReuse(k) ==
    /\ Released(k)
    /\ (\A j \in 1..(k - 1) : Active(j)) => getAvailablePlayerID = k

\* C30: once the read of Active slot k's connection has returned zero bytes
\* or failed, then, unless the process ends, the tick reaches a state where
\* slot k is Empty, Disconnected(k) has been sent to every session still
\* Active, and id k is the one the next allocation gives when the lower
\* slots are Active.
C30_ClosedEventuallyReleased ==
    \A k \in 1..TableSize :
        (crashed = "" /\ Active(k) /\ (k \in closed \/ clients[k].tcp = NoTcp))
            ~> (crashed # "" \/ ReleasedForReuse(k))

\* C31: the requests of a receive phase stand in the queue, and so are
\* dispatched, with those of origin 0 first, in the order their connections
\* were read, then at most one per slot in ascending slot id; the dispatch
\* takes them from the first to the last, and none is left for a later
\* tick, so the requests of one session are dispatched in the order read.
C31_DispatchOrder ==
    [][/\ pc = "dispatch" =>
            \A i, j \in DOMAIN requests :
                i < j =>
                    /\ requests[j].id = 0 => requests[i].id = 0
                    /\ (requests[i].id = 0 /\ requests[j].id = 0) =>
                         requests[i].msg.web < requests[j].msg.web
                    /\ requests[i].id # 0 => requests[i].id < requests[j].id
       /\ (pc = "tcp" /\ requests' # requests) =>
            /\ Len(requests') = Len(requests) + 1
            /\ SubSeq(requests', 1, Len(requests)) = requests
            /\ requests'[Len(requests')].id = idx
            /\ lastRead'.slot = idx /\ lastRead'.kind # "block"
       /\ (pc = "dispatch" /\ pc' = "dispatch" /\ crashed' = "") =>
            idx' = idx + 1 /\ requests' = requests
       /\ (pc = "dispatch" /\ pc' # "dispatch") => idx = Len(requests) + 1
       /\ pc \in {"listen", "update"} => requests = <<>>]_vars

C31_Witness ==
    /\ pc = "dispatch" /\ crashed = "" /\ idx = 3
    /\ Len(requests) = 4
    /\ requests[1] = Request(0, SMsg("GameState", <<>>, 1))
    /\ requests[2] = Request(0, SMsg("GameState", <<>>, 2))
    /\ requests[3] = Request(1, SMsg("Register", <<97>>, NoWeb))
    /\ requests[4] = Request(2, SMsg("Invalid", <<>>, NoWeb))
    /\ Len(webOut) = 2 /\ webOut[1].sink = 1 /\ webOut[2].sink = 2

\* C32: when a tick is over, whether or not its receive phase or its state
\* broadcast took place, the request queue and the broadcast queue are
\* empty, and every request of the tick was dispatched once.
C32_QueuesEmptyAtTickEnd ==
    /\ (pc = "listen" /\ crashed = "") => requests = <<>> /\ broadcast = <<>>
    /\ pc \in {"flush", "state"} => requests = <<>>
    /\ pc = "dispatch" => idx \in 1..(Len(requests) + 1)

C32_Witness ==
    /\ pc = "listen" /\ crashed = ""
    /\ accepted.result = "none" /\ lastRead.kind = "none" /\ udpOut = <<>>
    /\ queued # <<>> /\ tcpOut # <<>> /\ webOut # <<>>
    /\ requests = <<>> /\ broadcast = <<>>

\* C33: the session table and the state-record table have as many entries
\* as the configured capacity, so the scans of allocation and of the state
\* broadcast stay inside them.
C33_TablesMatchCapacity ==
    /\ Len(clients) = maxPlayersCount
    /\ Len(playersState) = maxPlayersCount
    /\ getAvailablePlayerID # Panic
    /\ ~StateScanPanics

\* C34: a 9-byte datagram whose slot id is greater than the configured
\* capacity changes no state record and no session, and the receive phase
\* goes on.
C34_IdPastCapacityDiscarded ==
    [][(/\ pc = "udp" /\ pc' = "udp"
        /\ Len(lastDgram'.data) = 9
        /\ slotOf(lastDgram'.data[1]) > maxPlayersCount) =>
         /\ playersState' = playersState
         /\ clients' = clients
         /\ crashed' = ""]_vars

====
